---- MODULE Spec2Model ----
(***************************************************************************)
(* Orchestrator-AI: the mission state machine of App (processNextStep,     *)
(* the pacing effect, the cooldown / auto-resume interval, the user's      *)
(* buttons) and the token-budget rate limiter (checkRateLimit).            *)
(*                                                                         *)
(* Time.  The handlers read Date.now() only through differences with a     *)
(* stored time (now - windowStartTime, nextAllowedQueryTime - now), so the *)
(* model measures every stored time from the current instant: Date.now()   *)
(* is Now in every state and the passing of d milliseconds (Advance) moves *)
(* the stored times d into the past.  Offsets that the handlers cannot     *)
(* tell apart are merged: a windowStartTime older than every configurable  *)
(* period, a nextAllowedQueryTime that is already over.                    *)
(*                                                                         *)
(* React.  A handler's setState calls are applied in order to the latest   *)
(* state and committed together when the handler yields; stateRef.current  *)
(* is the last committed state.  One action is one handler, or one segment *)
(* of processNextStep between two awaits.                                  *)
(***************************************************************************)
EXTENDS Integers, Sequences, FiniteSets, TLC

VARIABLES
    state,    \* AppState (useState), the last committed value
    config,   \* RateLimitConfig (useState)
    query,    \* the objective text (useState)
    steps,    \* the processNextStep invocations suspended at an await
    pacing,   \* the pacing effect's setTimeout: ms left, or NoTimer
    call,     \* one generateContentWithFallback call of the Model Gateway
    storage,  \* localStorage: the autosave record and the history list
    saveTimer \* the debounced auto-save's pending setTimeouts: ms left of each

vars == <<state, config, query, steps, pacing, call, storage, saveTimer>>

----------------------------------------------------------------------------
(* Bounds of the model *)

MaxPlan == 2        \* longest task list a planning call returns, and the
                    \* longest list a re-planning call may leave
MaxInFlight == 2    \* processNextStep invocations suspended at the same time
MaxLogs == 4        \* no new step starts once the log is longer than this

(* Program constants *)

Now == 0                 \* Date.now(), the origin of the stored times
PacingDelayMs == 1000    \* setTimeout(processNextStep, 1000)
NoTimer == -1            \* no timeout pending (cleared or fired)

Null == "null"           \* null / undefined
NoCall == [outcome |-> "none"]   \* no gateway call is followed

\* The roles of AgentRole, in the order of the API_KEYS object
RoleOrder == <<"Supervisor", "Coder", "Writer", "Researcher", "Analyst", "Editor">>

Roles == {RoleOrder[i] : i \in 1..Len(RoleOrder)}

\* A prompt is the role's default text or a text the user wrote.
DEFAULT_AGENT_PROMPTS == [r \in Roles |-> "default"]

\* localStorage without the two keys of the application
NoRecord == [id |-> "none"]
NoStorage == [autosave |-> NoRecord, history |-> <<>>]

\* What a planning or re-planning reply holds for a task: the title, the
\* description and the assignedAgent of the response schema.
TaskItems == {[title |-> "T1", description |-> "D1", assignedAgent |-> "Coder"]}
Texts == {"", "text"}                \* response.text: empty or not
Usages == {0, 850}                   \* usageMetadata.totalTokenCount (absent: 0)
AdvanceSteps == {1000}               \* the clock's steps, in ms

\* The configurations of the mission specifications: DEFAULT_RATE_LIMIT
\* (100000 tokens, auto-resume off) with a period of seconds, and the same
\* with a budget the model's calls can exhaust.
Configs ==
    [maxTokens : {1000, 100000}, periodValue : {2}, periodUnit : {"seconds"},
     autoResumeMinutes : {0}]

\* The objective: a sequence of characters, " " the white space.
Objective == <<"o">>
Queries == {<<>>, Objective}

Running == {"planning", "working"}

----------------------------------------------------------------------------
(* Helpers *)

Max(a, b) == IF a >= b THEN a ELSE b

RemoveAt(seq, i) == SubSeq(seq, 1, i - 1) \o SubSeq(seq, i + 1, Len(seq))

SeqsUpTo(S, n) == UNION {[1..k -> S] : k \in 0..n}

----------------------------------------------------------------------------
(* Rate limiter *)

PeriodMs(c) ==
    IF c.periodUnit = "seconds" THEN c.periodValue * 1000
    ELSE IF c.periodUnit = "minutes" THEN c.periodValue * 60 * 1000
    ELSE IF c.periodUnit = "hours" THEN c.periodValue * 60 * 60 * 1000
    ELSE 0

\* A stored windowStartTime this old has elapsed under every configuration.
Horizon ==
    LET periods == {PeriodMs(c) : c \in Configs}
    IN  (CHOOSE m \in periods : \A p \in periods : p <= m) + PacingDelayMs

\* (tokenUsage / maxTokens) * 100 >= 80, for maxTokens > 0
OverThreshold(tokenUsage, maxTokens) == tokenUsage * 100 >= 80 * maxTokens

\* checkRateLimit with the wait counted from now, not from the window's start
checkRateLimit_FullWait(ref, s, c, now) ==
    LET periodMs == PeriodMs(c)
        elapsed  == now - ref.windowStartTime
    IN  IF elapsed > periodMs
        THEN [permit |-> TRUE,
              state  |-> [s EXCEPT !.tokenUsage = 0,
                                   !.windowStartTime = now,
                                   !.status = IF @ = "cooldown" THEN "working" ELSE @]]
        ELSE IF OverThreshold(ref.tokenUsage, c.maxTokens)
        THEN [permit |-> FALSE,
              state  |-> [s EXCEPT !.status = "cooldown",
                                   !.nextAllowedQueryTime = now + periodMs]]
        ELSE [permit |-> TRUE, state |-> s]

\* checkRateLimit decides on ref (stateRef.current) and queues an updater,
\* which React applies to s, the latest state.
checkRateLimit(ref, s, c, now) ==
    LET periodMs == PeriodMs(c)
        elapsed  == now - ref.windowStartTime
    IN  IF elapsed > periodMs
        THEN [permit |-> TRUE,
              state  |-> [s EXCEPT !.tokenUsage = 0,
                                   !.windowStartTime = now,
                                   !.status = IF @ = "cooldown" THEN "working" ELSE @]]
        ELSE IF OverThreshold(ref.tokenUsage, c.maxTokens)
        THEN [permit |-> FALSE,
              state  |-> [s EXCEPT !.status = "cooldown",
                                   !.nextAllowedQueryTime = now + (periodMs - elapsed)]]
        ELSE [permit |-> TRUE, state |-> s]

----------------------------------------------------------------------------
(* State *)

INITIAL_STATE ==
    [status |-> "idle",
     tasks |-> <<>>,
     logs |-> <<>>,
     currentTaskIndex |-> 0,
     tokenUsage |-> 0,
     windowStartTime |-> Now,
     nextAllowedQueryTime |-> 0,
     finalOutput |-> Null,
     agentPrompts |-> DEFAULT_AGENT_PROMPTS]

\* A log that puts the newest entry first
addLog_Prepend(s, type) == [s EXCEPT !.logs = <<type>> \o @]

\* addLog (lines 175-187): the entry is its type
addLog(s, type) == [s EXCEPT !.logs = Append(@, type)]

\* The tasks a planning or re-planning response is mapped to.
PendingTasks(items) ==
    [i \in 1..Len(items) |->
        [title |-> items[i].title,
         description |-> items[i].description,
         assignedAgent |-> items[i].assignedAgent,
         status |-> "pending",
         result |-> Null]]

\* The pacing effect, deps [status, currentTaskIndex, tokenUsage, processNextStep]
\* (processNextStep changes with query): on a change the pending timeout is
\* cleared and, while the mission runs, a new one is set.
PacingAfter(s, q, s2, q2, p) ==
    IF  /\ s2.status = s.status
        /\ s2.currentTaskIndex = s.currentTaskIndex
        /\ s2.tokenUsage = s.tokenUsage
        /\ q2 = q
    THEN p
    ELSE IF s2.status \in Running THEN PacingDelayMs ELSE NoTimer

Init ==
    /\ state = INITIAL_STATE
    /\ config \in Configs
    /\ query = <<>>
    /\ steps = <<>>
    /\ pacing = NoTimer
    /\ call = NoCall
    /\ storage = NoStorage
    /\ saveTimer = <<>>

----------------------------------------------------------------------------
(* The clock *)

\* nextAllowedQueryTime is read by the interval alone, which runs in
\* cooldown and auto-paused, and every transition into those sets it.
TimerActive(s) == s.status \in {"cooldown", "auto-paused"}

Advance(d) ==
    /\ state' = [state EXCEPT
                    !.windowStartTime = Max(@ - d, Now - Horizon),
                    !.nextAllowedQueryTime =
                        IF TimerActive(state) THEN Max(@ - d, Now) ELSE Now]
    /\ pacing' = IF pacing = NoTimer THEN NoTimer ELSE Max(pacing - d, 0)
    /\ UNCHANGED <<storage, saveTimer, call, config, query, steps>>

----------------------------------------------------------------------------
(* processNextStep *)

\* A suspended invocation: the await it waits at (kind), the snapshot
\* `current` it took of the state (tasks, currentTaskIndex) and, once the
\* task's call has returned, updatedTasksWithCurrentResult and result.usage.
Step(kind, tasks, idx, usage) ==
    [kind |-> kind, tasks |-> tasks, taskIndex |-> idx, usage |-> usage]

MarkInProgress(tasks, taskIndex) ==
    [i \in 1..Len(tasks) |->
        IF i = taskIndex + 1 THEN [tasks[i] EXCEPT !.status = "in-progress"] ELSE tasks[i]]

\* A step that writes its first log entry before it asks the rate limiter
processNextStep_LogFirst(current, c, now) ==
    IF current.status \notin Running
    THEN [state |-> current, step |-> <<>>]
    ELSE
    LET first == IF current.status = "planning" THEN "plan"
                 ELSE IF current.currentTaskIndex >= Len(current.tasks) THEN "info"
                 ELSE "action"
        chk == checkRateLimit(current, addLog(current, first), c, now)
    IN  IF ~chk.permit
        THEN [state |-> chk.state, step |-> <<>>]
        ELSE IF current.status = "planning"
        THEN [state |-> chk.state,
              step  |-> <<Step("plan", current.tasks, current.currentTaskIndex, 0)>>]
        ELSE IF current.currentTaskIndex >= Len(current.tasks)
        THEN [state |-> chk.state,
              step  |-> <<Step("synth", current.tasks, current.currentTaskIndex, 0)>>]
        ELSE [state |-> [chk.state EXCEPT
                            !.tasks = MarkInProgress(@, current.currentTaskIndex)],
              step  |-> <<Step("task", current.tasks, current.currentTaskIndex, 0)>>]

\* Lines 190-256: from the call of processNextStep to its first await (or
\* return).  The result is the committed state and the suspended
\* invocation, if it reached an await.
processNextStep(current, c, now) ==
    IF current.status \notin Running
    THEN [state |-> current, step |-> <<>>]
    ELSE
    LET chk == checkRateLimit(current, current, c, now) IN
    IF ~chk.permit
    THEN [state |-> chk.state, step |-> <<>>]
    ELSE IF current.status = "planning"
    THEN [state |-> addLog(chk.state, "plan"),
          step  |-> <<Step("plan", current.tasks, current.currentTaskIndex, 0)>>]
    ELSE IF current.currentTaskIndex >= Len(current.tasks)
    THEN LET chk2 == checkRateLimit(current, addLog(chk.state, "info"), c, now) IN
         IF ~chk2.permit
         THEN [state |-> chk2.state, step |-> <<>>]
         ELSE [state |-> chk2.state,
               step  |-> <<Step("synth", current.tasks, current.currentTaskIndex, 0)>>]
    ELSE LET marked == [chk.state EXCEPT
                           !.tasks = MarkInProgress(@, current.currentTaskIndex)]
         IN  [state |-> addLog(marked, "action"),
              step  |-> <<Step("task", current.tasks, current.currentTaskIndex, 0)>>]

\* The pacing effect's timeout fires and calls processNextStep.
Fire ==
    /\ pacing = 0
    /\ LET r == processNextStep(state, config, Now) IN
        /\ state' = r.state
        /\ steps' = steps \o r.step
        /\ pacing' = PacingAfter(state, query, r.state, query, NoTimer)
    /\ UNCHANGED <<storage, saveTimer, call, config, query>>

PacingFire ==
    /\ Len(steps) < MaxInFlight
    /\ Len(state.logs) <= MaxLogs
    /\ Fire

----------------------------------------------------------------------------
(* processNextStep after an await: the call of suspended invocation i returns *)

\* createSupervisorPlan returned (lines 202-213).
planCommit(s, items, usage) ==
    LET logged == addLog(s, "info")
        committed == [logged EXCEPT !.status = "working",
                                    !.tasks = PendingTasks(items),
                                    !.currentTaskIndex = 0,
                                    !.tokenUsage = @ + usage]
    IN  addLog(committed, "plan")

PlanReturns(i, items, usage) ==
    /\ steps[i].kind = "plan"
    /\ state' = planCommit(state, items, usage)
    /\ steps' = RemoveAt(steps, i)
    /\ pacing' = PacingAfter(state, query, state', query, pacing)
    /\ UNCHANGED <<storage, saveTimer, call, config, query>>

\* A catch block that logs the error and leaves the status as it is
catchError_LogOnly(s) == addLog(s, "error")

\* The catch block (lines 304-316): quota or not, an error entry and paused.
catchError(s) == [addLog(s, "error") EXCEPT !.status = "paused"]

\* What the catch block is entered with: createSupervisorPlan or
\* executeAgentTask throws what the gateway (or the parsing of its reply)
\* threw; updateSupervisorPlan returns tasks that are no array, and
\* replanResult.tasks.map (line 285) throws after the entry of line 283.
callFailed(s, st) ==
    IF st.kind = "replan" THEN catchError(addLog(s, "info")) ELSE catchError(s)

CallFails(i) ==
    /\ steps[i].kind \in {"plan", "task", "replan"}
    /\ state' = callFailed(state, steps[i])
    /\ steps' = RemoveAt(steps, i)
    /\ pacing' = PacingAfter(state, query, state', query, pacing)
    /\ UNCHANGED <<storage, saveTimer, call, config, query>>

\* executeAgentTask passing response.text on as it is
TaskOutput_Raw(text) == text

\* executeAgentTask: response.text || "Task completed, but no text output generated."
TaskOutput(text) ==
    IF text = "" THEN "Task completed, but no text output generated." ELSE text

\* updatedTasksWithCurrentResult (lines 262-267)
WithCurrentResult(tasks, taskIndex, text) ==
    [i \in 1..Len(tasks) |->
        IF i = taskIndex + 1
        THEN [tasks[i] EXCEPT !.status = "completed", !.result = text]
        ELSE tasks[i]]

\* The commit that ends a task step (lines 297-302).
taskCommit(s, nextTasks, usage, additionalUsage) ==
    [s EXCEPT !.currentTaskIndex = @ + 1,
              !.tokenUsage = @ + usage + additionalUsage,
              !.tasks = nextTasks]

\* A task step that re-plans without asking the rate limiter
taskReturned_NoCheck(s, st, text, usage, c, now) ==
    LET logged  == addLog(addLog(addLog(s, "info"), "info"), "result")
        updated == WithCurrentResult(st.tasks, st.taskIndex, TaskOutput(text))
        remainingCount == Len(updated) - (st.taskIndex + 1)
    IN  IF remainingCount > 0
        THEN [state |-> addLog(logged, "plan"),
              step  |-> <<Step("replan", updated, st.taskIndex, usage)>>]
        ELSE [state |-> taskCommit(logged, updated, usage, 0), step |-> <<>>]

\* executeAgentTask returned (lines 258-302, to the await of the re-planning
\* call or, without one, to the commit).
taskReturned(s, st, text, usage, c, now) ==
    LET logged  == addLog(addLog(addLog(s, "info"), "info"), "result")
        updated == WithCurrentResult(st.tasks, st.taskIndex, TaskOutput(text))
        remainingCount == Len(updated) - (st.taskIndex + 1)
        chk == checkRateLimit(s, logged, c, now)
    IN  IF remainingCount > 0 /\ chk.permit
        THEN [state |-> addLog(chk.state, "plan"),
              step  |-> <<Step("replan", updated, st.taskIndex, usage)>>]
        ELSE IF remainingCount > 0
        THEN [state |-> taskCommit(chk.state, updated, usage, 0), step |-> <<>>]
        ELSE [state |-> taskCommit(logged, updated, usage, 0), step |-> <<>>]

TaskReturns(i, text, usage) ==
    /\ steps[i].kind = "task"
    /\ LET r == taskReturned(state, steps[i], text, usage, config, Now) IN
        /\ state' = r.state
        /\ steps' = RemoveAt(steps, i) \o r.step
    /\ pacing' = PacingAfter(state, query, state', query, pacing)
    /\ UNCHANGED <<storage, saveTimer, call, config, query>>

\* A re-planning commit that keeps at most 5 tasks more than it replaces
replanCommit_Clamped(s, st, items, additionalUsage) ==
    LET completedTasks == SubSeq(st.tasks, 1, st.taskIndex + 1)
        limit == (Len(st.tasks) - (st.taskIndex + 1)) + 5
        kept == SubSeq(items, 1, IF Len(items) < limit THEN Len(items) ELSE limit)
        logged == addLog(addLog(s, "info"), "plan")
    IN  taskCommit(logged, completedTasks \o PendingTasks(kept), st.usage,
                   additionalUsage)

\* updateSupervisorPlan returned (lines 281-302): nextTasks is the completed
\* prefix followed by the returned tasks, all pending.
replanCommit(s, st, items, additionalUsage) ==
    LET completedTasks == SubSeq(st.tasks, 1, st.taskIndex + 1)
        logged == addLog(addLog(s, "info"), "plan")
    IN  taskCommit(logged, completedTasks \o PendingTasks(items), st.usage,
                   additionalUsage)

\* A fallback that returns no tasks
remainingTasks_None(st) == <<>>

\* remainingTasks (line 278): the tasks after the current one, which
\* updateSupervisorPlan is given and, on an error, returns as they are
remainingTasks(st) ==
    [i \in 1..(Len(st.tasks) - (st.taskIndex + 1)) |-> st.tasks[st.taskIndex + 1 + i]]

ReplanReturns(i, items, usage) ==
    /\ steps[i].kind = "replan"
    /\ state' = replanCommit(state, steps[i], items, usage)
    /\ steps' = RemoveAt(steps, i)
    /\ pacing' = PacingAfter(state, query, state', query, pacing)
    /\ UNCHANGED <<storage, saveTimer, call, config, query>>

\* updateSupervisorPlan caught an error: { tasks: remainingTasks, usage: 0 }.
ReplanFallback(i) ==
    /\ steps[i].kind = "replan"
    /\ state' = replanCommit(state, steps[i], remainingTasks(steps[i]), 0)
    /\ steps' = RemoveAt(steps, i)
    /\ pacing' = PacingAfter(state, query, state', query, pacing)
    /\ UNCHANGED <<storage, saveTimer, call, config, query>>

\* superviseFinalOutput: response.text || "Final output generation failed."
FinalText(text) ==
    IF text = "" THEN "Final output generation failed." ELSE text

\* superviseFinalOutput returned (lines 226-238): the commit, the result's
\* log entry and, in SynthReturns and SynthFallback, the removal of the
\* autosave record (line 237).
synthCommit(s, finalOutput, usage) ==
    LET logged == addLog(s, "info")
        committed == [logged EXCEPT !.status = "completed",
                                    !.finalOutput = finalOutput,
                                    !.tokenUsage = @ + usage]
    IN  addLog(committed, "result")

SynthReturns(i, text, usage) ==
    /\ steps[i].kind = "synth"
    /\ state' = synthCommit(state, FinalText(text), usage)
    /\ storage' = [storage EXCEPT !.autosave = NoRecord]
    /\ steps' = RemoveAt(steps, i)
    /\ pacing' = PacingAfter(state, query, state', query, pacing)
    /\ UNCHANGED <<saveTimer, call, config, query>>

\* superviseFinalOutput caught an error: the error's text, usage 0.
SynthFallback(i) ==
    /\ steps[i].kind = "synth"
    /\ state' = synthCommit(state, "Error generating final output: Error", 0)
    /\ storage' = [storage EXCEPT !.autosave = NoRecord]
    /\ steps' = RemoveAt(steps, i)
    /\ pacing' = PacingAfter(state, query, state', query, pacing)
    /\ UNCHANGED <<saveTimer, call, config, query>>

----------------------------------------------------------------------------
(* The cooldown / auto-resume interval (lines 151-171) *)

\* The interval's callback (lines 155-165)
cooldownTick(s, now) ==
    LET remaining == Max(0, s.nextAllowedQueryTime - now) IN
    IF remaining <= 0 /\ s.status # "paused"
    THEN [s EXCEPT !.status = "working", !.windowStartTime = now]
    ELSE s

CooldownTick ==
    /\ TimerActive(state)
    /\ state' = cooldownTick(state, Now)
    /\ pacing' = PacingAfter(state, query, state', query, pacing)
    /\ UNCHANGED <<storage, saveTimer, call, config, query, steps>>

----------------------------------------------------------------------------
(* The user *)

isIdle(s) == s.status \in {"idle", "completed", "error"}
isPaused(s) == s.status \in {"paused", "auto-paused"}
isConfigEnabled(s) == isIdle(s) \/ isPaused(s)

\* query.trim(): the text without its leading and trailing white space
RECURSIVE TrimStart(_)
TrimStart(q) ==
    IF q # <<>> /\ Head(q) = " " THEN TrimStart(Tail(q)) ELSE q

RECURSIVE TrimEnd(_)
TrimEnd(q) ==
    IF q # <<>> /\ q[Len(q)] = " " THEN TrimEnd(SubSeq(q, 1, Len(q) - 1)) ELSE q

Trim(q) == TrimEnd(TrimStart(q))

\* A start that takes the whole of INITIAL_STATE, its prompts included
handleStart_FreshPrompts(s, q, now) ==
    IF Trim(q) = <<>> THEN s
    ELSE [INITIAL_STATE EXCEPT !.status = "planning", !.windowStartTime = now]

handleStart(s, q, now) ==
    IF Trim(q) = <<>> THEN s
    ELSE [INITIAL_STATE EXCEPT !.status = "planning", !.windowStartTime = now,
                               !.agentPrompts = s.agentPrompts]

HandleStart ==
    /\ isIdle(state)
    /\ Trim(query) # <<>>
    /\ state' = handleStart(state, query, Now)
    /\ pacing' = PacingAfter(state, query, state', query, pacing)
    /\ UNCHANGED <<storage, saveTimer, call, config, query, steps>>

handlePause(s, c, now) ==
    IF c.autoResumeMinutes > 0
    THEN [s EXCEPT !.status = "auto-paused",
                   !.nextAllowedQueryTime = now + c.autoResumeMinutes * 60 * 1000]
    ELSE [s EXCEPT !.status = "paused"]

HandlePause ==
    /\ ~isIdle(state) /\ ~isPaused(state)
    /\ state' = handlePause(state, config, Now)
    /\ pacing' = PacingAfter(state, query, state', query, pacing)
    /\ UNCHANGED <<storage, saveTimer, call, config, query, steps>>

handleStopTimer(s) == [s EXCEPT !.status = "paused"]

HandleStopTimer ==
    /\ state.status = "auto-paused"
    /\ state' = handleStopTimer(state)
    /\ pacing' = PacingAfter(state, query, state', query, pacing)
    /\ UNCHANGED <<storage, saveTimer, call, config, query, steps>>

\* A resume that always goes back to working
handleResume_Working(s) == [s EXCEPT !.status = "working"]

handleResume(s) ==
    [s EXCEPT !.status = IF Len(s.tasks) > 0 THEN "working" ELSE "planning"]

HandleResume ==
    /\ isPaused(state)
    /\ state' = handleResume(state)
    /\ pacing' = PacingAfter(state, query, state', query, pacing)
    /\ UNCHANGED <<storage, saveTimer, call, config, query, steps>>

handleRestart(s, now) ==
    [INITIAL_STATE EXCEPT !.status = "planning", !.windowStartTime = now,
                          !.agentPrompts = s.agentPrompts]

HandleRestart ==
    /\ ~isIdle(state) /\ state.status # "auto-paused"
    /\ state' = handleRestart(state, Now)
    /\ pacing' = PacingAfter(state, query, state', query, pacing)
    /\ UNCHANGED <<storage, saveTimer, call, config, query, steps>>

\* The objective's textarea and the RateLimitConfigPanel, both disabled
\* unless isConfigEnabled.
SetQuery(q) ==
    /\ isConfigEnabled(state)
    /\ q # query
    /\ query' = q
    /\ pacing' = PacingAfter(state, query, state, q, pacing)
    /\ UNCHANGED <<storage, saveTimer, call, state, config, steps>>

SetConfig(c) ==
    /\ isConfigEnabled(state)
    /\ c # config
    /\ config' = c
    /\ UNCHANGED <<storage, saveTimer, call, state, query, steps, pacing>>

----------------------------------------------------------------------------
(* Specification *)

\* What a re-planning call may return for suspended invocation i: the model
\* keeps the task list within MaxPlan tasks.
ReplanItems(i) ==
    SeqsUpTo(TaskItems, Max(0, MaxPlan - (steps[i].taskIndex + 1)))

User ==
    \/ HandleStart
    \/ HandlePause
    \/ HandleResume
    \/ HandleRestart
    \/ \E q \in Queries : SetQuery(q)
    \/ \E c \in Configs : SetConfig(c)

Timers ==
    \/ \E d \in AdvanceSteps : Advance(d)
    \/ PacingFire
    \/ CooldownTick

Gateway ==
    \E i \in 1..Len(steps) :
        \/ \E items \in SeqsUpTo(TaskItems, MaxPlan), u \in Usages : PlanReturns(i, items, u)
        \/ CallFails(i)
        \/ \E text \in Texts, u \in Usages : TaskReturns(i, text, u)
        \/ \E items \in ReplanItems(i), u \in Usages : ReplanReturns(i, items, u)
        \/ ReplanFallback(i)
        \/ \E text \in Texts, u \in Usages : SynthReturns(i, text, u)
        \/ SynthFallback(i)

Next == User \/ Timers \/ Gateway

Spec == Init /\ [][Next]_vars

----------------------------------------------------------------------------
(* The mission left to itself: started, then no user action and no failing  *)
(* model call.  Time passes, a timer that is due fires and a model call     *)
(* returns: the fairness of the browser's timers and of the gateway.        *)

AutoInit ==
    /\ query = Objective
    /\ state = handleStart(INITIAL_STATE, query, Now)
    /\ config \in Configs
    /\ steps = <<>>
    /\ pacing = PacingDelayMs
    /\ call = NoCall
    /\ storage = NoStorage
    /\ saveTimer = <<>>

Tick == \E d \in AdvanceSteps : Advance(d)

AutoPacingFire ==
    /\ Len(steps) < MaxInFlight
    /\ Fire

AutoGateway ==
    \E i \in 1..Len(steps) :
        \/ \E items \in SeqsUpTo(TaskItems, MaxPlan), u \in Usages : PlanReturns(i, items, u)
        \/ \E text \in Texts, u \in Usages : TaskReturns(i, text, u)
        \/ \E items \in ReplanItems(i), u \in Usages : ReplanReturns(i, items, u)
        \/ \E text \in Texts, u \in Usages : SynthReturns(i, text, u)

AutoNext == Tick \/ AutoPacingFire \/ CooldownTick \/ AutoGateway

AutoSpec ==
    /\ AutoInit
    /\ [][AutoNext]_vars
    /\ WF_vars(Tick)
    /\ WF_vars(AutoPacingFire)
    /\ WF_vars(CooldownTick)
    /\ WF_vars(AutoGateway)

----------------------------------------------------------------------------
(* The rate limiter alone: checkRateLimit applied to a grid of states and   *)
(* configurations.                                                          *)

Statuses ==
    {"idle", "planning", "working", "cooldown", "completed", "error", "paused",
     "auto-paused"}

LimiterConfigs ==
    [maxTokens : {1000, 100000}, periodValue : {1, 2},
     periodUnit : {"seconds", "minutes", "hours"}, autoResumeMinutes : {0}]

LimiterUsages == {0, 799, 800, 850, 79999, 80000, 100000}

\* windowStartTime, as an offset from Now: around each period of LimiterConfigs
LimiterStarts ==
    {Now - e : e \in {0, 1, 999, 1000, 1001, 2000, 2001, 60000, 60001, 120000,
                      120001, 3600000, 3600001, 7200000, 7200001}}

LimiterInit ==
    /\ \E st \in Statuses, u \in LimiterUsages, w \in LimiterStarts :
          state = [INITIAL_STATE EXCEPT !.status = st, !.tokenUsage = u,
                                        !.windowStartTime = w]
    /\ config \in LimiterConfigs
    /\ query = <<>>
    /\ steps = <<>>
    /\ pacing = NoTimer
    /\ call = NoCall
    /\ storage = NoStorage
    /\ saveTimer = <<>>

\* One call of checkRateLimit, outside any step.
Check ==
    /\ state' = checkRateLimit(state, state, config, Now).state
    /\ UNCHANGED <<storage, saveTimer, call, config, query, steps, pacing>>

LimiterSpec == LimiterInit /\ [][Check]_vars

----------------------------------------------------------------------------
(* Claims *)

Elapsed == Now - state.windowStartTime

\* C1: in a window that has not elapsed, a permission check at 80% of the
\* budget or more denies, sets status cooldown and sets nextAllowedQueryTime
\* to now + (periodMs - elapsed), and does nothing else; below 80% it permits
\* and leaves the state as it is.
C1_CheckAtThreshold ==
    LET r == checkRateLimit(state, state, config, Now) IN
    Elapsed <= PeriodMs(config) =>
        IF 5 * state.tokenUsage >= 4 * config.maxTokens
        THEN /\ ~r.permit
             /\ r.state.status = "cooldown"
             /\ r.state.nextAllowedQueryTime = Now + (PeriodMs(config) - Elapsed)
             /\ \A f \in DOMAIN state \ {"status", "nextAllowedQueryTime"} :
                    r.state[f] = state[f]
        ELSE r.permit /\ r.state = state

\* A denial has happened exactly at 80%, part of the way into a window.
C1_Witness ==
    /\ state.status = "cooldown"
    /\ 5 * state.tokenUsage = 4 * config.maxTokens
    /\ Elapsed = 1000
    /\ state.nextAllowedQueryTime = Now + (PeriodMs(config) - 1000)
    /\ config.periodUnit = "minutes"

\* C2: auto-resume.  A mission in cooldown with no model call in flight
\* eventually issues its next model call (it does not go round cooldown ->
\* working -> cooldown for ever).
C2_AutoResume ==
    (state.status = "cooldown" /\ steps = <<>>) ~> (steps # <<>>)

\* C3: when the window has elapsed while status is cooldown, the interval's
\* next tick leaves tokenUsage = 0 and status = working.
C3_TickResetsUsage ==
    [][(state.status = "cooldown" /\ Elapsed > PeriodMs(config) /\ CooldownTick)
        => (state'.tokenUsage = 0 /\ state'.status = "working")]_vars

\* The transitions that begin a mission, and the passing of time (which
\* moves the stored offsets, not the stored times).
StartsMission == HandleStart \/ HandleRestart

\* C4: within one mission tokenUsage never decreases except to 0; every
\* transition that sets a new windowStartTime sets tokenUsage to 0; and
\* tokenUsage is reset to 0 only when now - windowStartTime > periodMs.
C4_UsageResetsWithWindow ==
    [][(~StartsMission /\ ~Tick) =>
        /\ state'.tokenUsage >= state.tokenUsage \/ state'.tokenUsage = 0
        /\ state'.windowStartTime # state.windowStartTime => state'.tokenUsage = 0
        /\ (state'.tokenUsage = 0 /\ state.tokenUsage # 0) => Elapsed > PeriodMs(config)
      ]_vars

\* C5: maxTokens = 1000, tokenUsage = 0, one model call reports 850 tokens
\* and the window has not elapsed: the next permission check in program
\* order denies and sets cooldown, and no further model call is issued.
\* After a task's call with tasks left that check is the re-planning check
\* of the same step; otherwise it is the check that opens the next step.
C5_CheckAfter850Denies ==
    [][(config.maxTokens = 1000 /\ Elapsed <= PeriodMs(config)) =>
        /\ \A i \in 1..Len(steps), text \in Texts :
              ( /\ state.tokenUsage = 0
                /\ steps[i].kind = "task"
                /\ Len(steps[i].tasks) > steps[i].taskIndex + 1
                /\ TaskReturns(i, text, 850) )
              => (state'.status = "cooldown" /\ steps' = RemoveAt(steps, i))
        /\ (state.tokenUsage = 850 /\ state.status \in Running /\ PacingFire)
              => (state'.status = "cooldown" /\ steps' = steps)
      ]_vars

\* C6: at most one invocation of processNextStep is suspended at a model
\* call at any time.
C6_OneStepInFlight == Len(steps) <= 1

\* C7: except on start and restart, currentTaskIndex never decreases.
C7_IndexNeverDecreases ==
    [][~StartsMission => state'.currentTaskIndex >= state.currentTaskIndex]_vars

\* C8: currentTaskIndex never exceeds tasks.length.
C8_IndexWithinTasks == state.currentTaskIndex <= Len(state.tasks)

\* C9: status completed implies that finalOutput is set and that
\* currentTaskIndex = tasks.length.
C9_CompletedIsWhole ==
    state.status = "completed" =>
        /\ state.finalOutput # Null
        /\ state.currentTaskIndex = Len(state.tasks)

\* C10: every completed task carries a non-empty result.
C10_CompletedHasResult ==
    \A i \in 1..Len(state.tasks) :
        state.tasks[i].status = "completed" =>
            state.tasks[i].result # Null /\ state.tasks[i].result # ""

\* A task was completed by a call that returned empty text: its result is
\* the substitute text.
C10_Witness ==
    \E i \in 1..Len(state.tasks) :
        /\ state.tasks[i].status = "completed"
        /\ state.tasks[i].result = TaskOutput("")

\* C11: a re-plan's commit leaves every task that is completed in the state
\* where it is and as it is; only what follows the completed tasks is
\* replaced.
C11_ReplanKeepsCompleted ==
    [][\A i \in 1..Len(steps) :
          (ReplanFallback(i) \/ \E items \in ReplanItems(i), u \in Usages :
                                    ReplanReturns(i, items, u))
          => \A j \in 1..Len(state.tasks) :
                state.tasks[j].status = "completed"
                => (j <= Len(state'.tasks) /\ state'.tasks[j] = state.tasks[j])
      ]_vars

\* The error-kind entries of a log.
ErrorEntries(s) == Cardinality({k \in 1..Len(s.logs) : s.logs[k] = "error"})

\* C12: when the model call of a task step fails, the state after the step
\* has status paused, no task in-progress, and one more error entry.
C12_FailedTaskLeavesNoneInProgress ==
    [][\A i \in 1..Len(steps) :
          (steps[i].kind = "task" /\ CallFails(i))
          => /\ state'.status = "paused"
             /\ \A j \in 1..Len(state'.tasks) : state'.tasks[j].status # "in-progress"
             /\ ErrorEntries(state') = ErrorEntries(state) + 1
      ]_vars

\* createSupervisorPlan calls awaited
PlanCalls(ss) == Cardinality({k \in 1..Len(ss) : ss[k].kind = "plan"})

\* C13, as amended: when the planning call fails the mission becomes paused
\* with an error entry appended, the failure leaves tasks, currentTaskIndex
\* and tokenUsage as they were and no step is scheduled; the step's opening,
\* which issues the call, leaves tasks and currentTaskIndex as they were and
\* tokenUsage too, unless its permission check finds the window elapsed and
\* sets it to 0; a planning call is issued only in status planning, which is
\* entered only by the user's start, resume or restart.
C13_FailedPlanPauses ==
    [][/\ \A i \in 1..Len(steps) :
            (steps[i].kind = "plan" /\ CallFails(i))
            => /\ state'.status = "paused"
               /\ state'.logs = Append(state.logs, "error")
               /\ state'.tasks = state.tasks
               /\ state'.currentTaskIndex = state.currentTaskIndex
               /\ state'.tokenUsage = state.tokenUsage
               /\ pacing' = NoTimer
       /\ PlanCalls(steps') > PlanCalls(steps)
            => /\ state.status = "planning"
               /\ state'.tasks = state.tasks
               /\ state'.currentTaskIndex = state.currentTaskIndex
               /\ state'.tokenUsage =
                      IF Now - state.windowStartTime > PeriodMs(config)
                      THEN 0 ELSE state.tokenUsage
       /\ (state.status # "planning" /\ state'.status = "planning")
            => (HandleStart \/ HandleResume \/ HandleRestart)
      ]_vars

\* A plan without tasks was returned, the user paused and resumed, the
\* window elapsed, the second planning step began a new window and its call
\* has failed.
C13_Witness ==
    /\ state.status = "paused"
    /\ state.logs = <<"plan", "info", "plan", "plan", "error">>
    /\ state.tasks = <<>>
    /\ state.tokenUsage = 0
    /\ state.windowStartTime = Now
    /\ steps = <<>>
    /\ pacing = NoTimer

\* C13, as stated: a planning step whose call fails leaves tasks,
\* currentTaskIndex and tokenUsage the same as before the step.  The step is
\* two transitions, its opening (the permission check and the issue of the
\* call) and the failure of the call, which may follow at once: the values
\* after the step are those before it when neither transition changes them.
C13_FailedPlanKeepsUsage ==
    [][/\ \A i \in 1..Len(steps) :
            (steps[i].kind = "plan" /\ CallFails(i))
            => /\ state'.status = "paused"
               /\ state'.logs = Append(state.logs, "error")
               /\ state'.tasks = state.tasks
               /\ state'.currentTaskIndex = state.currentTaskIndex
               /\ state'.tokenUsage = state.tokenUsage
               /\ pacing' = NoTimer
       /\ PlanCalls(steps') > PlanCalls(steps)
            => /\ state.status = "planning"
               /\ state'.tasks = state.tasks
               /\ state'.currentTaskIndex = state.currentTaskIndex
               /\ state'.tokenUsage = state.tokenUsage
       /\ (state.status # "planning" /\ state'.status = "planning")
            => (HandleStart \/ HandleResume \/ HandleRestart)
      ]_vars

\* C14: for every kind of step, final synthesis included, a failed model
\* call pauses the mission and appends an error entry, and the step does not
\* set status completed.
C14_FailedCallPauses ==
    [][\A i \in 1..Len(steps) :
          (CallFails(i) \/ SynthFallback(i))
          => /\ state'.status = "paused"
             /\ ErrorEntries(state') = ErrorEntries(state) + 1
      ]_vars

\* C16: when planning has returned an empty task list (status working, no
\* tasks, no call in flight) the mission goes on to final synthesis and
\* becomes completed.
C16_EmptyPlanCompletes ==
    (state.status = "working" /\ state.tasks = <<>> /\ steps = <<>>)
        ~> (state.status = "completed")

----------------------------------------------------------------------------
(* The mission with the Auto-Resume Timer: the configuration panel's        *)
(* autoResumeMinutes is 0 or 1, Pause starts the timer, Stop Timer ends it. *)
(* One step is awaited at a time.                                           *)

MaxAwaited == 1     \* processNextStep invocations suspended at the same time

PauseConfigs ==
    [maxTokens : {1000}, periodValue : {2}, periodUnit : {"seconds"},
     autoResumeMinutes : {0, 1}]

PauseAdvanceSteps == {1000, 60000}

PauseInit ==
    /\ query = Objective
    /\ state = handleStart(INITIAL_STATE, query, Now)
    /\ config \in PauseConfigs
    /\ steps = <<>>
    /\ pacing = PacingDelayMs
    /\ call = NoCall
    /\ storage = NoStorage
    /\ saveTimer = <<>>

PauseTick == \E d \in PauseAdvanceSteps : Advance(d)

PausePacingFire ==
    /\ Len(steps) < MaxAwaited
    /\ Len(state.logs) <= MaxLogs
    /\ Fire

PauseNext ==
    \/ HandlePause
    \/ HandleStopTimer
    \/ HandleResume
    \/ HandleRestart
    \/ \E c \in PauseConfigs : SetConfig(c)
    \/ PauseTick
    \/ PausePacingFire
    \/ CooldownTick
    \/ Gateway

PauseSpec == PauseInit /\ [][PauseNext]_vars

\* C17: once the user has paused (status paused), the interval's tick and
\* the pacing timeout leave the status paused, whether or not the cooldown or
\* the auto-resume time has been reached, and while the time that the timer
\* was set for is still ahead (the pause was made with the timer running)
\* the status leaves paused only by the user's Resume or Restart.  (No
\* session is stored here, so there is none to load.)
C17_OnlyUserLeavesPaused ==
    [][state.status = "paused" =>
        /\ cooldownTick(state, Now).status = "paused"
        /\ (PauseTick \/ PausePacingFire \/ CooldownTick) => state'.status = "paused"
        /\ (state.nextAllowedQueryTime > Now /\ state'.status # "paused")
              => (HandleResume \/ HandleRestart)
      ]_vars

\* C18: when the mission is paused while a model call is awaited, the
\* status is still a paused one after the call has returned and its result
\* is committed.
C18_PauseOutlastsCommit ==
    [][(isPaused(state) /\ Gateway) => isPaused(state')]_vars

----------------------------------------------------------------------------
(* The Model Gateway: one call of generateContentWithFallback, an action   *)
(* for each attempt (one await of ai.models.generateContent).              *)

MaxShared == 3      \* longest list of shared keys in the environment

Keys == {"A", "B", "C"}

\* The environments: VITE_GEMINI_API_KEY_<ROLE> set for Supervisor and Coder
\* or not at all (""), and a list of shared keys without repetition.
GatewayEnvs ==
    {e \in [supervisor : Keys \cup {""}, coder : Keys \cup {""},
            shared : SeqsUpTo(Keys, MaxShared)] :
        \A i, j \in 1..Len(e.shared) : e.shared[i] = e.shared[j] => i = j}

roleScopedKeys(env, role) ==
    IF role = "Supervisor" THEN env.supervisor
    ELSE IF role = "Coder" THEN env.coder
    ELSE ""

\* roleScopedKeys[role] || sharedKeys[0] || ""
API_KEYS(env, role) ==
    IF roleScopedKeys(env, role) # "" THEN roleScopedKeys(env, role)
    ELSE IF Len(env.shared) > 0 THEN env.shared[1]
    ELSE ""

\* Array.from(new Set(seq)): the first occurrence of each element, in order
RECURSIVE Dedupe(_)
Dedupe(seq) ==
    IF seq = <<>> THEN <<>>
    ELSE LET front == Dedupe(SubSeq(seq, 1, Len(seq) - 1))
             last  == seq[Len(seq)]
         IN  IF \E i \in 1..Len(front) : front[i] = last
             THEN front
             ELSE Append(front, last)

keyPool(env) ==
    LET values == [i \in 1..Len(RoleOrder) |-> API_KEYS(env, RoleOrder[i])] \o env.shared
        Set(k) == k # ""
    IN  Dedupe(SelectSeq(values, Set))

primaryKey(env, role) ==
    IF API_KEYS(env, role) # "" THEN API_KEYS(env, role) ELSE keyPool(env)[1]

\* The pool in its own order, whatever the role prefers
executionOrder_PoolOrder(env, role) == keyPool(env)

\* [primaryKey, ...backupKeys]
executionOrder(env, role) ==
    LET Backup(k) == k # primaryKey(env, role)
    IN  <<primaryKey(env, role)>> \o SelectSeq(keyPool(env), Backup)

\* What an attempt can throw: an API error with its status (0: none), and
\* whether its text holds "limit: 0" or the free-tier quota name (global) and
\* whether it holds "429" or "quota" (quotaText).
ApiErrors ==
    [kind : {"api"}, status : {0, 400, 429, 503}, global : BOOLEAN,
     quotaText : BOOLEAN]

\* new Error(`Content generation blocked: ${finishReason}`)
BlockError == [kind |-> "block", status |-> 0, global |-> FALSE, quotaText |-> FALSE]

NoError == [kind |-> "none"]    \* let lastError = null; nothing thrown

\* const status = error.status || error.code || 500
StatusOf(error) == IF error.status = 0 THEN 500 ELSE error.status

\* No error is taken for a global one
isGlobalQuotaExhausted_Never(error) == FALSE

isGlobalQuotaExhausted(error) == error.global

isQuota(error) == StatusOf(error) = 429 \/ error.quotaText

isServer(error) == StatusOf(error) >= 500 /\ StatusOf(error) < 600

NewCall(env, role) ==
    [env |-> env, role |-> role, attempts |-> <<>>, outcome |-> "pending",
     lastError |-> NoError, error |-> NoError]

\* The key of the loop's next iteration
NextKey(c) == executionOrder(c.env, c.role)[Len(c.attempts) + 1]

\* A catch block that keeps the first error it recorded
catchAttempt_FirstError(c, error) ==
    LET tried == [c EXCEPT !.attempts = Append(@, NextKey(c))]
        kept  == IF c.lastError = NoError THEN error ELSE c.lastError
    IN
    IF isGlobalQuotaExhausted(error)
    THEN [tried EXCEPT !.outcome = "thrown", !.error = error]
    ELSE IF isQuota(error) \/ isServer(error)
    THEN IF Len(tried.attempts) < Len(executionOrder(c.env, c.role))
         THEN [tried EXCEPT !.lastError = kept]
         ELSE [tried EXCEPT !.lastError = kept, !.outcome = "thrown", !.error = kept]
    ELSE [tried EXCEPT !.outcome = "thrown", !.error = error]

\* The catch block of an attempt (lines 93-124) and, after the last key,
\* the throw that follows the loop (line 128).
catchAttempt(c, error) ==
    LET tried == [c EXCEPT !.attempts = Append(@, NextKey(c))] IN
    IF isGlobalQuotaExhausted(error)
    THEN [tried EXCEPT !.outcome = "thrown", !.error = error]
    ELSE IF isQuota(error) \/ isServer(error)
    THEN IF Len(tried.attempts) < Len(executionOrder(c.env, c.role))
         THEN [tried EXCEPT !.lastError = error]
         ELSE [tried EXCEPT !.lastError = error, !.outcome = "thrown", !.error = error]
    ELSE [tried EXCEPT !.outcome = "thrown", !.error = error]

GatewayInit ==
    /\ state = INITIAL_STATE
    /\ config = [maxTokens |-> 100000, periodValue |-> 1, periodUnit |-> "minutes",
                 autoResumeMinutes |-> 0]
    /\ query = <<>>
    /\ steps = <<>>
    /\ pacing = NoTimer
    /\ \E env \in GatewayEnvs, role \in Roles :
          /\ keyPool(env) # <<>>
          /\ call = NewCall(env, role)
    /\ storage = NoStorage
    /\ saveTimer = <<>>

\* The attempt returns a response that is not blocked.
AttemptSucceeds ==
    /\ call.outcome = "pending"
    /\ call' = [call EXCEPT !.attempts = Append(@, NextKey(call)),
                            !.outcome = "returned"]
    /\ UNCHANGED <<state, config, query, steps, pacing, storage, saveTimer>>

\* The attempt returns a response without text whose first candidate has
\* finishReason SAFETY or RECITATION: the throw of line 86, inside the try.
AttemptBlocked ==
    /\ call.outcome = "pending"
    /\ call' = catchAttempt(call, BlockError)
    /\ UNCHANGED <<state, config, query, steps, pacing, storage, saveTimer>>

\* ai.models.generateContent throws.
AttemptFails(error) ==
    /\ call.outcome = "pending"
    /\ call' = catchAttempt(call, error)
    /\ UNCHANGED <<state, config, query, steps, pacing, storage, saveTimer>>

GatewayNext ==
    \/ AttemptSucceeds
    \/ AttemptBlocked
    \/ \E error \in ApiErrors : AttemptFails(error)

GatewaySpec == GatewayInit /\ [][GatewayNext]_vars

\* The position of a key in the pool
PoolIndex(k) == CHOOSE i \in 1..Len(keyPool(call.env)) : keyPool(call.env)[i] = k

\* C19: the keys of one call are tried in a fixed order: the role's key
\* first, then the other keys of the pool in pool order, none twice and none
\* skipped, and nothing after the first success; with pool [A, B, C] and
\* preference B the order is B, A, C.
C19_FailoverOrder ==
    LET pool == keyPool(call.env)
        first == primaryKey(call.env, call.role)
        tried == call.attempts
    IN  /\ Len(tried) >= 1 => tried[1] = first
        /\ \A i, j \in 1..Len(tried) : tried[i] = tried[j] => i = j
        /\ \A i \in 2..Len(tried) :
              /\ \E p \in 1..Len(pool) : pool[p] = tried[i]
              /\ \A p \in 1..Len(pool) :
                    (p < PoolIndex(tried[i]) /\ pool[p] # first)
                    => \E j \in 2..(i - 1) : tried[j] = pool[p]
        /\ (pool = <<"A", "B", "C">> /\ first = "B")
              => \E n \in 0..3 : tried = SubSeq(<<"B", "A", "C">>, 1, n)
        /\ call.outcome = "returned" => Len(tried) >= 1
        /\ call.outcome = "pending" => Len(tried) < Len(pool)

\* Pool [A, B, C], preference B: B and A failed and C answered.
C19_Witness ==
    /\ keyPool(call.env) = <<"A", "B", "C">>
    /\ primaryKey(call.env, call.role) = "B"
    /\ call.attempts = <<"B", "A", "C">>
    /\ call.outcome = "returned"
    /\ call.lastError # NoError
    /\ call.lastError.status = 429

\* C20: an attempt that ends in a content-safety or recitation block is the
\* call's last attempt, and the block is what the caller receives.
C20_BlockNotRetried ==
    [][AttemptBlocked => (call'.outcome = "thrown" /\ call'.error = BlockError)]_vars

\* C21: an attempt that fails with global quota exhaustion is the call's
\* last attempt and its error is what the caller receives, also when the
\* error has status 429 or a text that mentions quota.
C21_GlobalQuotaNotRetried ==
    [][\A error \in ApiErrors :
          (error.global /\ AttemptFails(error))
          => /\ call'.outcome = "thrown"
             /\ call'.error = error
             /\ Len(call'.attempts) = Len(call.attempts) + 1
      ]_vars

\* A global quota error that is also a 429 mentioning quota was thrown
\* while keys of the pool were still untried.
C21_Witness ==
    /\ call.outcome = "thrown"
    /\ call.error.global
    /\ call.error.status = 429
    /\ call.error.quotaText
    /\ Len(call.attempts) < Len(keyPool(call.env))

\* C22: an attempt's failure that is neither a per-key quota error (status
\* 429 or a text mentioning quota) nor a server error (status 5xx) is the
\* call's last attempt, and its error is what the caller receives.
C22_OtherErrorsNotRetried ==
    [][\A error \in ApiErrors :
          ( /\ ~error.global
            /\ ~(error.status = 429 \/ error.quotaText)
            /\ ~(error.status >= 500 /\ error.status < 600)
            /\ AttemptFails(error) )
          => (call'.outcome = "thrown" /\ call'.error = error)
      ]_vars

\* C23: a call makes at most as many attempts as the pool has keys and is
\* over once every key has been tried; when the last key fails, that
\* attempt's error is what the caller receives.
C23_TerminatesWithLastError ==
    [][/\ Len(call'.attempts) <= Len(keyPool(call.env))
       /\ Len(call'.attempts) = Len(keyPool(call.env)) => call'.outcome # "pending"
       /\ \A error \in ApiErrors :
             (AttemptFails(error) /\ Len(call.attempts) + 1 = Len(keyPool(call.env)))
             => (call'.outcome = "thrown" /\ call'.error = error)
      ]_vars

\* Three keys failed one after the other, the first two not with the error
\* of the third, and the third's error was thrown.
C23_Witness ==
    /\ call.outcome = "thrown"
    /\ Len(call.attempts) = 3
    /\ call.error.status = 503
    /\ ~call.error.quotaText
    /\ call.lastError = call.error

\* C24: status error is never reached; after the failure of a model call,
\* whichever step made it (planning, a task, re-planning or the final
\* synthesis), the mission is paused; and in paused both Resume (to working
\* or planning) and Restart (to planning) are enabled.
C24_AnyFailurePauses ==
    [][/\ state'.status # "error"
       /\ \A i \in 1..Len(steps) :
            (CallFails(i) \/ ReplanFallback(i) \/ SynthFallback(i))
            => state'.status = "paused"
       /\ state.status = "paused"
            => /\ ENABLED HandleResume
               /\ ENABLED HandleRestart
               /\ handleResume(state).status
                    = IF Len(state.tasks) > 0 THEN "working" ELSE "planning"
               /\ handleRestart(state, Now).status = "planning"
      ]_vars

----------------------------------------------------------------------------
(* Sessions: the agent prompts, Start and Restart, and the History          *)
(* panel's Load.  The handlers alone: no timer fires and no model call is   *)
(* made.                                                                    *)

PromptTexts == {"default", "custom"}

SessionQueries == {<<>>, <<" ">>, Objective, <<" ">> \o Objective}

\* { ...s.agentPrompts, [role]: prompt }
updatePrompt(s, role, prompt) ==
    LET old == s.agentPrompts IN
    [s EXCEPT !.agentPrompts =
        [r \in DOMAIN old \cup {role} |-> IF r = role THEN prompt ELSE old[r]]]

resetPrompts(s) == [s EXCEPT !.agentPrompts = DEFAULT_AGENT_PROMPTS]

\* { ...a, ...b }
Spread(a, b) ==
    [f \in DOMAIN a \cup DOMAIN b |-> IF f \in DOMAIN b THEN b[f] ELSE a[f]]

Without(r, field) == [f \in DOMAIN r \ {field} |-> r[f]]

\* A load that falls back on the prompts in memory
handleLoadSession_KeepPrompts(s, session) ==
    [query  |-> session.query,
     config |-> session.config,
     state  |-> [Spread(INITIAL_STATE, session.state) EXCEPT
                    !.agentPrompts =
                        IF "agentPrompts" \in DOMAIN session.state
                        THEN session.state.agentPrompts
                        ELSE s.agentPrompts,
                    !.status = "paused"]]

\* handleLoadSession (lines 384-391), and the same merge on mount (58-66):
\* s is the state in memory, which the handler reads only to ask the user.
handleLoadSession(s, session) ==
    [query  |-> session.query,
     config |-> session.config,
     state  |-> [Spread(INITIAL_STATE, session.state) EXCEPT
                    !.agentPrompts =
                        IF "agentPrompts" \in DOMAIN session.state
                        THEN session.state.agentPrompts
                        ELSE INITIAL_STATE.agentPrompts,
                    !.status = "paused"]]

\* What localStorage holds: a session saved in the middle of a mission with
\* a prompt of the user's, one saved by a version that kept no prompts, and
\* one whose prompts hold a single role.
MidMission ==
    [INITIAL_STATE EXCEPT
        !.status = "working",
        !.tasks = <<[title |-> "T1", description |-> "D1", assignedAgent |-> "Coder",
                     status |-> "completed", result |-> "text"],
                    [title |-> "T1", description |-> "D1", assignedAgent |-> "Coder",
                     status |-> "pending", result |-> Null]>>,
        !.logs = <<"plan">>,
        !.currentTaskIndex = 1,
        !.tokenUsage = 850,
        !.windowStartTime = Now - 1000,
        !.agentPrompts = [DEFAULT_AGENT_PROMPTS EXCEPT !["Writer"] = "custom"]]

Session(id, timestamp, q, c, s) ==
    [id |-> id, timestamp |-> timestamp, query |-> q, config |-> c, state |-> s]

SessionHistory ==
    LET c == [maxTokens |-> 1000, periodValue |-> 2, periodUnit |-> "seconds",
              autoResumeMinutes |-> 0]
    IN  << Session(-1000, -1000, Objective, c, MidMission),
           Session(-2000, -2000, Objective, c,
                   Without([MidMission EXCEPT !.status = "completed",
                                              !.finalOutput = "text"], "agentPrompts")),
           Session(-3000, -3000, Objective, c,
                   [MidMission EXCEPT !.status = "cooldown",
                                      !.agentPrompts = [r \in {"Supervisor"} |-> "custom"]]) >>

SessionInit ==
    /\ state = INITIAL_STATE
    /\ config \in Configs
    /\ query = <<>>
    /\ steps = <<>>
    /\ pacing = NoTimer
    /\ call = NoCall
    /\ storage = [autosave |-> NoRecord, history |-> SessionHistory]
    /\ saveTimer = <<>>

UpdatePrompt(role, prompt) ==
    /\ state' = updatePrompt(state, role, prompt)
    /\ UNCHANGED <<config, query, steps, pacing, call, storage, saveTimer>>

ResetPrompts ==
    /\ state' = resetPrompts(state)
    /\ UNCHANGED <<config, query, steps, pacing, call, storage, saveTimer>>

\* Load in the History panel (disabled while the mission runs) on the k-th
\* session of the list.
HandleLoadSession(k) ==
    /\ state.status \notin Running
    /\ LET loaded == handleLoadSession(state, storage.history[k]) IN
        /\ state' = loaded.state
        /\ query' = loaded.query
        /\ config' = loaded.config
    /\ pacing' = PacingAfter(state, query, state', query', pacing)
    /\ UNCHANGED <<steps, call, storage, saveTimer>>

SessionNext ==
    \/ \E q \in SessionQueries : SetQuery(q)
    \/ \E role \in Roles, prompt \in PromptTexts : UpdatePrompt(role, prompt)
    \/ ResetPrompts
    \/ HandleStart
    \/ HandlePause
    \/ HandleResume
    \/ HandleRestart
    \/ \E k \in 1..Len(storage.history) : HandleLoadSession(k)

SessionSpec == SessionInit /\ [][SessionNext]_vars

\* C25: Start and Restart give status planning, no tasks, no logs,
\* currentTaskIndex 0, tokenUsage 0, finalOutput null and windowStartTime
\* now, and keep agentPrompts; handleStart with an objective of white space
\* alone (or empty) returns the state it was given.
C25_StartResetsButPrompts ==
    [][/\ (HandleStart \/ HandleRestart)
            => /\ state'.status = "planning"
               /\ state'.tasks = <<>>
               /\ state'.logs = <<>>
               /\ state'.currentTaskIndex = 0
               /\ state'.tokenUsage = 0
               /\ state'.finalOutput = Null
               /\ state'.windowStartTime = Now
               /\ state'.agentPrompts = state.agentPrompts
       /\ \A q \in SessionQueries :
             (\A i \in 1..Len(q) : q[i] = " ") => handleStart(state, q, Now) = state
      ]_vars

\* A mission has been started anew over a loaded session: nothing is left
\* of it but the prompt the user wrote.
C25_Witness ==
    /\ state.status = "planning"
    /\ state.tasks = <<>>
    /\ state.logs = <<>>
    /\ state.tokenUsage = 0
    /\ state.windowStartTime = Now
    /\ state.agentPrompts = [DEFAULT_AGENT_PROMPTS EXCEPT !["Writer"] = "custom"]

\* C26: loading a session gives the same state, query and config from
\* every state in memory, gives them again when the session is loaded a
\* second time, and the state loaded has status paused whatever status was
\* saved.
C26_LoadIsIdempotent ==
    [][\A k \in 1..Len(storage.history) :
          LET session == storage.history[k]
              fresh   == handleLoadSession(INITIAL_STATE, session)
              loaded  == handleLoadSession(state, session)
          IN  /\ loaded = fresh
              /\ handleLoadSession(loaded.state, session) = loaded
              /\ loaded.state.status = "paused"
              /\ loaded.query = session.query
              /\ loaded.config = session.config
              /\ HandleLoadSession(k)
                    => (state' = fresh.state /\ query' = fresh.query /\ config' = fresh.config)
      ]_vars

\* The session saved without prompts has been loaded: a completed mission,
\* now paused, with the default prompts.
C26_Witness ==
    /\ state.status = "paused"
    /\ state.finalOutput = "text"
    /\ state.currentTaskIndex = 1
    /\ state.tokenUsage = 850
    /\ state.agentPrompts = DEFAULT_AGENT_PROMPTS
    /\ query = Objective

\* C27: agentPrompts has an entry for every role, in every state.
C27_PromptsComplete == DOMAIN state.agentPrompts = Roles

----------------------------------------------------------------------------
(* The debounced auto-save (lines 98-113) beside a mission planned with    *)
(* one task, one step awaited at a time.  The times inside a stored record *)
(* are offsets from the instant of its write.                              *)

AutosaveDelayMs == 1000

SaveMaxLogs == 7    \* no new step starts once the log is longer than this
MaxFailures == 1    \* no call fails once the log has this many error entries

\* An effect that sets its timeout without clearing the one before
AutosaveAfter_NoCancel(set, q, q2, s2, timers) ==
    IF ~set /\ q2 = q
    THEN timers
    ELSE timers \o (IF s2.status = "idle" THEN <<>> ELSE <<AutosaveDelayMs>>)

\* The effect, deps [state, query, config].  state and config are objects,
\* compared by identity: every setState and setConfig gives a new one (set),
\* whatever its values; query is a string.  On a change the cleanup clears
\* the timeout the effect had set and, unless the status is idle, the effect
\* sets a new one.
AutosaveAfter(set, q, q2, s2, timers) ==
    IF ~set /\ q2 = q
    THEN timers
    ELSE SubSeq(timers, 1, Len(timers) - 1)
            \o (IF s2.status = "idle" THEN <<>> ELSE <<AutosaveDelayMs>>)

\* The record the timeout and handleBeforeUnload write (id 'autosave')
AutosaveRecord(s, q, c) == [id |-> "autosave", query |-> q, config |-> c, state |-> s]

\* A handler has called setState or setConfig and commits s2, q2, c2: the
\* pacing effect and the auto-save effect run.
Commits(s2, q2, c2) ==
    /\ state' = s2
    /\ query' = q2
    /\ config' = c2
    /\ pacing' = PacingAfter(state, query, s2, q2, pacing)
    /\ saveTimer' = AutosaveAfter(TRUE, query, q2, s2, saveTimer)

\* The records an earlier run of the page has left: a mission in planning,
\* a mission with its task in progress, a completed mission.
StoredStates ==
    LET started == handleStart(INITIAL_STATE, Objective, Now)
        task == [title |-> "T1", description |-> "D1", assignedAgent |-> "Coder",
                 status |-> "in-progress", result |-> Null]
        done == [task EXCEPT !.status = "completed", !.result = "text"]
    IN  { started,
          [started EXCEPT !.status = "working", !.tasks = <<task>>,
                          !.logs = <<"plan", "info", "plan", "action">>],
          [started EXCEPT !.status = "completed", !.tasks = <<done>>,
                          !.currentTaskIndex = 1, !.finalOutput = "text",
                          !.logs = <<"plan", "info", "plan", "action">>] }

\* The configuration of this specification: a budget the calls can exhaust,
\* in a window of one second
SaveConfigs ==
    {[maxTokens |-> 1000, periodValue |-> 1, periodUnit |-> "seconds",
      autoResumeMinutes |-> 0]}

\* A window start this old is over for every configuration of SaveConfigs,
\* at every step that reads it: older ones are kept at this age.
SaveHorizon ==
    LET periods == {PeriodMs(c) : c \in SaveConfigs}
    IN  (CHOOSE m \in periods : \A p \in periods : p <= m) + PacingDelayMs


\* The history an earlier run has left: one session, saved with its task in
\* progress SaveHorizon ms ago or longer
SaveHistory ==
    LET started == handleStart(INITIAL_STATE, Objective, Now - SaveHorizon)
        task == [title |-> "T1", description |-> "D1", assignedAgent |-> "Coder",
                 status |-> "in-progress", result |-> Null]
        c == CHOOSE x \in SaveConfigs : TRUE
    IN  << Session(Now - SaveHorizon, Now - SaveHorizon, Objective, c,
                   [started EXCEPT !.status = "working", !.tasks = <<task>>,
                                   !.logs = <<"plan", "info", "plan", "action">>]) >>

\* After the mount effect (lines 48-74), whose merge is handleLoadSession's:
\* nothing stored, or a record that was not resumed
\* (completed, or confirm() refused), or a record resumed as paused, for
\* which the auto-save effect has set its timeout.
AutosaveInit ==
    /\ steps = <<>>
    /\ pacing = NoTimer
    /\ call = NoCall
    /\ \E saved \in {AutosaveRecord(s, Objective, c) :
                          s \in StoredStates, c \in SaveConfigs} \cup {NoRecord},
          confirm \in BOOLEAN :
          /\ storage = [autosave |-> saved, history |-> SaveHistory]
          /\ IF /\ saved # NoRecord
                /\ saved.state.status # "idle" /\ saved.state.status # "completed"
                /\ confirm
             THEN /\ query = handleLoadSession(INITIAL_STATE, saved).query
                  /\ config = handleLoadSession(INITIAL_STATE, saved).config
                  /\ state = handleLoadSession(INITIAL_STATE, saved).state
                  /\ saveTimer = <<AutosaveDelayMs>>
             ELSE /\ query = <<>>
                  /\ config \in SaveConfigs
                  /\ state = INITIAL_STATE
                  /\ saveTimer = <<>>

\* setQuery with the text already shown is no change of the string.
SaveSetQuery(q) ==
    /\ isConfigEnabled(state)
    /\ q # query
    /\ state' = state
    /\ query' = q
    /\ config' = config
    /\ pacing' = PacingAfter(state, query, state, q, pacing)
    /\ saveTimer' = AutosaveAfter(FALSE, query, q, state, saveTimer)
    /\ UNCHANGED <<steps, call, storage>>

\* The panel calls onChange({ ...config, field: value }): a new object, also
\* for the value already shown.
SaveSetConfig(c) ==
    /\ isConfigEnabled(state)
    /\ Commits(state, query, c)
    /\ UNCHANGED <<steps, call, storage>>

SaveStart ==
    /\ isIdle(state)
    /\ Trim(query) # <<>>
    /\ Commits(handleStart(state, query, Now), query, config)
    /\ UNCHANGED <<steps, call, storage>>

SavePause ==
    /\ ~isIdle(state) /\ ~isPaused(state)
    /\ Commits(handlePause(state, config, Now), query, config)
    /\ UNCHANGED <<steps, call, storage>>

SaveResume ==
    /\ isPaused(state)
    /\ Commits(handleResume(state), query, config)
    /\ UNCHANGED <<steps, call, storage>>

SaveRestart ==
    /\ ~isIdle(state) /\ state.status # "auto-paused"
    /\ Commits(handleRestart(state, Now), query, config)
    /\ UNCHANGED <<steps, call, storage>>

\* The prompt editor (open in every status): setState with the edited
\* prompts, also for the text already there.
SaveUpdatePrompt(role, prompt) ==
    /\ Commits(updatePrompt(state, role, prompt), query, config)
    /\ UNCHANGED <<steps, call, storage>>

SaveResetPrompts ==
    /\ Commits(resetPrompts(state), query, config)
    /\ UNCHANGED <<steps, call, storage>>

\* Load on the k-th session of the History panel (disabled while the
\* mission runs): setQuery, setConfig, setState.
SaveLoadSession(k) ==
    /\ state.status \notin Running
    /\ LET loaded == handleLoadSession(state, storage.history[k]) IN
          Commits(loaded.state, loaded.query, loaded.config)
    /\ UNCHANGED <<steps, call, storage>>

\* d ms pass: the stored times, what the sessions were stamped with and
\* every pending timeout move.  A timeout that is due may run late.
SaveAdvance(d) ==
    /\ state' = [state EXCEPT
                    !.windowStartTime = Max(@ - d, Now - SaveHorizon),
                    !.nextAllowedQueryTime =
                        IF TimerActive(state) THEN Max(@ - d, Now) ELSE Now]
    /\ pacing' = IF pacing = NoTimer THEN NoTimer ELSE Max(pacing - d, 0)
    /\ saveTimer' = [i \in 1..Len(saveTimer) |-> Max(saveTimer[i] - d, 0)]
    /\ storage' = [storage EXCEPT !.history =
                      [i \in 1..Len(@) |->
                          [@[i] EXCEPT !.id = Max(@ - d, Now - SaveHorizon),
                                       !.timestamp = Max(@ - d, Now - SaveHorizon)]]]
    /\ UNCHANGED <<config, query, steps, call>>

\* The pacing timeout fires in planning or working: processNextStep sets the
\* state on every path (the denial, or the first log entry).
SavePacingFire ==
    /\ pacing = 0
    /\ Len(steps) < MaxAwaited
    /\ Len(state.logs) <= SaveMaxLogs
    /\ LET r == processNextStep(state, config, Now) IN
        /\ state' = r.state
        /\ steps' = steps \o r.step
        /\ pacing' = PacingAfter(state, query, r.state, query, NoTimer)
        /\ saveTimer' = AutosaveAfter(TRUE, query, query, r.state, saveTimer)
    /\ UNCHANGED <<config, query, call, storage>>

\* The interval's callback sets the state only when the time is over and the
\* status is not paused.
SaveCooldownTick ==
    /\ TimerActive(state)
    /\ LET s2 == cooldownTick(state, Now) IN
        /\ state' = s2
        /\ pacing' = PacingAfter(state, query, s2, query, pacing)
        /\ saveTimer' = AutosaveAfter(s2 # state, query, query, s2, saveTimer)
    /\ UNCHANGED <<config, query, steps, call, storage>>

SavePlanReturns(i, items, usage) ==
    /\ steps[i].kind = "plan"
    /\ Commits(planCommit(state, items, usage), query, config)
    /\ steps' = RemoveAt(steps, i)
    /\ UNCHANGED <<call, storage>>

\* The task's call returns; the plan has one task, so no re-planning call
\* follows.
SaveTaskReturns(i, text, usage) ==
    /\ steps[i].kind = "task"
    /\ LET r == taskReturned(state, steps[i], text, usage, config, Now) IN
        /\ Commits(r.state, query, config)
        /\ steps' = RemoveAt(steps, i) \o r.step
    /\ UNCHANGED <<call, storage>>

\* An awaited call throws: the catch block.
SaveCallFails(i) ==
    /\ ErrorEntries(state) < MaxFailures
    /\ steps[i].kind \in {"plan", "task", "replan"}
    /\ Commits(callFailed(state, steps[i]), query, config)
    /\ steps' = RemoveAt(steps, i)
    /\ UNCHANGED <<call, storage>>

\* The synthesis call returns: the commit, then
\* localStorage.removeItem(AUTOSAVE_KEY) (line 237).
SaveSynthReturns(i, text, usage) ==
    /\ steps[i].kind = "synth"
    /\ Commits(synthCommit(state, FinalText(text), usage), query, config)
    /\ steps' = RemoveAt(steps, i)
    /\ storage' = [storage EXCEPT !.autosave = NoRecord]
    /\ UNCHANGED call

\* superviseFinalOutput caught an error and returned its text: the same
\* commit and removal.
SaveSynthFallback(i) ==
    /\ steps[i].kind = "synth"
    /\ Commits(synthCommit(state, "Error generating final output: Error", 0),
               query, config)
    /\ steps' = RemoveAt(steps, i)
    /\ storage' = [storage EXCEPT !.autosave = NoRecord]
    /\ UNCHANGED call

\* A pending timeout is due and writes the record from the refs.
AutosaveWrite ==
    /\ \E i \in 1..Len(saveTimer) :
          /\ saveTimer[i] = 0
          /\ saveTimer' = RemoveAt(saveTimer, i)
    /\ storage' = [storage EXCEPT !.autosave = AutosaveRecord(state, query, config)]
    /\ UNCHANGED <<state, config, query, steps, pacing, call>>

\* handleBeforeUnload (lines 78-91): the record is written at once while the
\* mission is working, planning, in cooldown or auto-paused.
handleBeforeUnload(store, s, q, c) ==
    IF s.status \in {"working", "planning", "cooldown", "auto-paused"}
    THEN [store EXCEPT !.autosave = AutosaveRecord(s, q, c)]
    ELSE store

\* The window's beforeunload event, the page staying
BeforeUnload ==
    /\ storage' = handleBeforeUnload(storage, state, query, config)
    /\ UNCHANGED <<state, config, query, steps, pacing, call, saveTimer>>

AutosaveNext ==
    \/ \E q \in Queries : SaveSetQuery(q)
    \/ \E c \in SaveConfigs : SaveSetConfig(c)
    \/ SaveStart
    \/ SavePause
    \/ SaveResume
    \/ SaveRestart
    \/ \E prompt \in PromptTexts : SaveUpdatePrompt("Writer", prompt)
    \/ SaveResetPrompts
    \/ \E k \in 1..Len(storage.history) : SaveLoadSession(k)
    \/ \E d \in AdvanceSteps : SaveAdvance(d)
    \/ SavePacingFire
    \/ SaveCooldownTick
    \/ AutosaveWrite
    \/ BeforeUnload
    \/ \E i \in 1..Len(steps), items \in SeqsUpTo(TaskItems, 1) \ {<<>>}, u \in Usages \ {0} :
          SavePlanReturns(i, items, u)
    \/ \E i \in 1..Len(steps), text \in Texts \ {""}, u \in Usages \ {0} :
          SaveTaskReturns(i, text, u)
    \/ \E i \in 1..Len(steps) : SaveCallFails(i)
    \/ \E i \in 1..Len(steps), text \in Texts \ {""}, u \in Usages \ {0} :
          SaveSynthReturns(i, text, u)
    \/ \E i \in 1..Len(steps) : SaveSynthFallback(i)

AutosaveSpec == AutosaveInit /\ [][AutosaveNext]_vars

\* C28: while the mission is completed there is no autosave record: the
\* synthesis step removed it and no later write brings one back.
C28_CompletedHasNoAutosave ==
    state.status = "completed" => storage.autosave = NoRecord

\* C29: at most one auto-save write is pending; a change of state, query or
\* config, and a setConfig of the values already held, replaces the pending
\* write by a new one with the full delay, or by none when the status is
\* idle; and a write that fires stores the state, query and config of that
\* moment.
C29_OneWritePending ==
    [][/\ Len(saveTimer') <= 1
       /\ (state' # state \/ query' # query \/ config' # config) /\ ~(\E d \in AdvanceSteps : SaveAdvance(d))
            => saveTimer' = IF state'.status = "idle" THEN <<>> ELSE <<AutosaveDelayMs>>
       /\ (\E c \in SaveConfigs : SaveSetConfig(c))
            => saveTimer' = IF state'.status = "idle" THEN <<>> ELSE <<AutosaveDelayMs>>
       /\ AutosaveWrite
            => /\ storage'.autosave.state = state
               /\ storage'.autosave.query = query
               /\ storage'.autosave.config = config
               /\ saveTimer' = <<>>
      ]_vars

\* A write was pending when the mission changed, and the record written
\* afterwards holds the mission as it is now, after the change.
C29_Witness ==
    /\ storage.autosave # NoRecord
    /\ storage.autosave.state = state
    /\ state.status = "working"
    /\ Len(state.tasks) = 1
    /\ saveTimer = <<>>

----------------------------------------------------------------------------
(* The session history of storageService: saveSession and deleteSession    *)
(* under the Save Progress and Delete buttons, with the clock in ms.  A    *)
(* session's id is the number after 'session-', and like its timestamp it  *)
(* is an offset from Now.                                                  *)

MaxAgeMs == 5

\* slice(0, 10)
MaxSessions == 10

getSessions(store) == store.history

\* The clock is read twice: for the id (line 9), then for the timestamp
\* (line 13).
saveSession(store, s, q, c, idNow, timestampNow) ==
    LET newSession == Session(idNow, timestampNow, q, c, s)
        updatedSessions == <<newSession>> \o getSessions(store)
    IN  [store EXCEPT !.history =
            SubSeq(updatedSessions, 1,
                   IF Len(updatedSessions) < MaxSessions THEN Len(updatedSessions)
                                                          ELSE MaxSessions)]

deleteSession(store, id) ==
    [store EXCEPT !.history = SelectSeq(getSessions(store), LAMBDA x : x.id # id)]

HistoryInit ==
    /\ state = [MidMission EXCEPT !.status = "paused"]
    /\ config \in Configs
    /\ query = Objective
    /\ steps = <<>>
    /\ pacing = NoTimer
    /\ call = NoCall
    /\ storage = NoStorage
    /\ saveTimer = <<>>

\* Save Progress, disabled={isIdle && !state.tasks.length}.  Now is the
\* instant of the first read of the clock; the clock does not go back, so a
\* click comes no earlier than the last read of the save before.
HandleSave ==
    /\ ~(isIdle(state) /\ Len(state.tasks) = 0)
    /\ \A i \in 1..Len(storage.history) : storage.history[i].timestamp <= Now
    /\ \E e \in {0, 1} :    \* the ms between the two reads of the clock
          storage' = saveSession(storage, state, query, config, Now, Now + e)
    /\ UNCHANGED <<state, config, query, steps, pacing, call, saveTimer>>

\* Delete on the k-th row of the history panel
HandleDeleteSession(k) ==
    /\ storage' = deleteSession(storage, storage.history[k].id)
    /\ UNCHANGED <<state, config, query, steps, pacing, call, saveTimer>>

\* The ms that have passed since HistoryInit
HistoryElapsed == MidMission.windowStartTime - state.windowStartTime

\* d ms pass: the times stored in the state and what the sessions were
\* stamped with (Date.now()) are d ms older.
HistoryAdvance(d) ==
    /\ HistoryElapsed + d <= MaxAgeMs
    /\ state' = [state EXCEPT
                    !.windowStartTime = Max(@ - d, Now - Horizon),
                    !.nextAllowedQueryTime =
                        IF TimerActive(state) THEN Max(@ - d, Now) ELSE Now]
    /\ storage' = [storage EXCEPT !.history =
                      [i \in 1..Len(@) |-> [@[i] EXCEPT !.id = @ - d,
                                                        !.timestamp = @ - d]]]
    /\ UNCHANGED <<config, query, steps, pacing, call, saveTimer>>

HistoryNext ==
    \/ HandleSave
    \/ \E k \in 1..Len(storage.history) : HandleDeleteSession(k)
    \/ HistoryAdvance(1)

HistorySpec == HistoryInit /\ [][HistoryNext]_vars

\* C30: after every step the history holds at most 10 sessions, most recent
\* first, with pairwise distinct ids; a save into a full history drops the
\* oldest session; a delete removes exactly the session it was given and
\* keeps the others in their order.
C30_HistoryBoundedDistinct ==
    [][LET h == storage.history
           h2 == storage'.history
       IN  /\ Len(h2) <= 10
           /\ \A i \in 1..(Len(h2) - 1) : h2[i].timestamp >= h2[i + 1].timestamp
           /\ \A i, j \in 1..Len(h2) : i # j => h2[i].id # h2[j].id
           /\ HandleSave /\ Len(h) = 10 => SubSeq(h2, 2, 10) = SubSeq(h, 1, 9)
           /\ \A k \in 1..Len(h) : HandleDeleteSession(k) => h2 = RemoveAt(h, k)
      ]_vars

----------------------------------------------------------------------------
(* C31 .. C40: the mission state machine, further properties *)

\* The mission is active: it plans, works or cools down, or one of its
\* model calls has not returned yet.
MissionActive == state.status \in {"planning", "working", "cooldown"} \/ steps # <<>>

\* C31: the RateLimitConfig changes only while the mission is not active:
\* status idle or paused and no model call in flight.
C31_ConfigFixedWhileActive ==
    [][config' # config => ~MissionActive]_vars

\* A model call is issued in this step: a new invocation is suspended at an
\* await, or a task's invocation moves on to its re-planning call.
IssuesCall == steps' # steps /\ Len(steps') >= Len(steps)

\* What checkRateLimit answers in this state
Permits == checkRateLimit(state, state, config, Now).permit

\* C32: a step issues a model call (planning, task, re-planning, synthesis)
\* only after a permission check of that step has permitted, and it issues
\* one call at most; a step whose check is denied issues none.
C32_CallAfterPermit ==
    [][/\ IssuesCall => /\ Permits
                        /\ Len(steps') <= Len(steps) + 1
                        /\ \/ Fire
                           \/ \E i \in 1..Len(steps), text \in Texts, u \in Usages :
                                 TaskReturns(i, text, u)
       /\ Fire /\ ~Permits => steps' = steps /\ state'.status \in {"cooldown", state.status}
      ]_vars

\* A task's call has returned, the check before re-planning has permitted
\* and the re-planning call is awaited.
C32_Witness ==
    /\ Len(steps) = 1
    /\ steps[1].kind = "replan"
    /\ state.status = "working"
    /\ Permits

----------------------------------------------------------------------------
(* A task step from the return of the task's call to its commit, with      *)
(* re-planning replies of any length up to MaxReply.                       *)

MaxReply == 7       \* longest list a re-planning call returns
MaxTasks == 3       \* longest plan a task step starts from

\* A working mission with the plan of the given items, whose current task is
\* in progress, its call awaited
TaskInFlight(plan, idx, usage, wst) ==
    LET planned == [i \in 1..Len(plan) |->
                       IF i <= idx
                       THEN [PendingTasks(plan)[i] EXCEPT !.status = "completed",
                                                          !.result = "text"]
                       ELSE PendingTasks(plan)[i]]
    IN  [INITIAL_STATE EXCEPT
            !.status = "working",
            !.tasks = MarkInProgress(planned, idx),
            !.logs = <<"plan", "action">>,
            !.currentTaskIndex = idx,
            !.tokenUsage = usage,
            !.windowStartTime = wst]

\* The plans are the lists of one to MaxTasks tasks over three tasks that
\* differ in title, description and assignedAgent.
ReplanInit ==
    /\ LET planItems ==
               {[title |-> "T1", description |-> "D1", assignedAgent |-> "Coder"],
                [title |-> "T2", description |-> "D2", assignedAgent |-> "Writer"],
                [title |-> "T3", description |-> "D3", assignedAgent |-> "Researcher"]}
       IN  \E plan \in SeqsUpTo(planItems, MaxTasks) \ {<<>>},
              idx \in 0..(MaxTasks - 1), usage \in Usages, wst \in {Now, Now - 1000} :
              /\ idx < Len(plan)
              /\ state = TaskInFlight(plan, idx, usage, wst)
              /\ steps = <<Step("task",
                                [i \in 1..Len(plan) |->
                                    [state.tasks[i] EXCEPT
                                        !.status = IF i = idx + 1 THEN "pending" ELSE @]],
                                idx, 0)>>
    /\ config \in Configs
    /\ query = Objective
    /\ pacing = NoTimer
    /\ call = NoCall
    /\ storage = NoStorage
    /\ saveTimer = <<>>

ReplanNext ==
    \/ \E i \in 1..Len(steps), text \in Texts, u \in Usages : TaskReturns(i, text, u)
    \/ \E i \in 1..Len(steps), items \in SeqsUpTo(TaskItems, MaxReply), u \in Usages :
          ReplanReturns(i, items, u)
    \/ \E i \in 1..Len(steps) : ReplanFallback(i)
    \/ \E i \in 1..Len(steps) : CallFails(i)

ReplanSpec == ReplanInit /\ [][ReplanNext]_vars

\* C15: when the re-planning call fails the step commits the completed task,
\* the tasks after it have the titles, the descriptions and the assigned
\* roles they had before the attempt, in the same order, and are pending,
\* tokenUsage grows by the task's usage alone and the status is left as it
\* is.
C15_FailedReplanKeepsPlan ==
    [][\A i \in 1..Len(steps) :
          ReplanFallback(i)
          => LET st == steps[i]
                 k  == st.taskIndex + 1
             IN  /\ Len(state'.tasks) = Len(st.tasks)
                 /\ state'.tasks[k] = st.tasks[k]
                 /\ state'.tasks[k].status = "completed"
                 /\ \A j \in (k + 1)..Len(st.tasks) :
                        /\ state'.tasks[j].title = st.tasks[j].title
                        /\ state'.tasks[j].description = st.tasks[j].description
                        /\ state'.tasks[j].assignedAgent = st.tasks[j].assignedAgent
                        /\ state'.tasks[j].status = "pending"
                 /\ state'.currentTaskIndex = state.currentTaskIndex + 1
                 /\ state'.tokenUsage = state.tokenUsage + st.usage
                 /\ state'.status = state.status
      ]_vars

\* The re-planning call that followed the first task of the plan T1, T3, T2
\* has failed: the step has committed the first task and charged its 850
\* tokens alone, and the two tasks after it are the planned ones, T3 before
\* T2, each with its description and its role.
C15_Witness ==
    /\ steps = <<>>
    /\ state.status = "working"
    /\ Len(state.tasks) = 3
    /\ state.currentTaskIndex = 1
    /\ state.tokenUsage = 850
    /\ state.tasks[1].title = "T1" /\ state.tasks[1].status = "completed"
    /\ state.tasks[2] = [title |-> "T3", description |-> "D3",
                         assignedAgent |-> "Researcher",
                         status |-> "pending", result |-> Null]
    /\ state.tasks[3] = [title |-> "T2", description |-> "D2", assignedAgent |-> "Writer",
                         status |-> "pending", result |-> Null]
    /\ Len(state.logs) >= 2
    /\ SubSeq(state.logs, Len(state.logs) - 1, Len(state.logs)) = <<"info", "plan">>

\* The tasks after the current one in the snapshot of suspended invocation st
RemainingCount(st) == Len(st.tasks) - (st.taskIndex + 1)

\* C33: when a task's call returns, the re-planning call is made if and only
\* if a task remains after it and the permission check permits; if a task
\* remains and the check denies, the result and the index increment are
\* committed and the status is cooldown; the list a re-planning call returns
\* replaces the remaining tasks, all pending, whatever its length.
C33_ReplanIffRemainingAndPermit ==
    [][/\ \A text \in Texts, u \in Usages :
            steps # <<>> /\ TaskReturns(1, text, u) =>
                LET st == steps[1] IN
                /\ (steps' # <<>> /\ steps'[1].kind = "replan")
                       <=> (RemainingCount(st) > 0 /\ Permits)
                /\ RemainingCount(st) > 0 /\ ~Permits =>
                       /\ steps' = <<>>
                       /\ state'.status = "cooldown"
                       /\ state'.currentTaskIndex = state.currentTaskIndex + 1
                       /\ state'.tasks[st.taskIndex + 1].status = "completed"
                       /\ state'.tasks[st.taskIndex + 1].result = TaskOutput(text)
       /\ \A items \in SeqsUpTo(TaskItems, MaxReply), u \in Usages :
            steps # <<>> /\ ReplanReturns(1, items, u) =>
                LET st == steps[1] IN
                /\ Len(state'.tasks) = st.taskIndex + 1 + Len(items)
                /\ SubSeq(state'.tasks, 1, st.taskIndex + 1)
                       = SubSeq(st.tasks, 1, st.taskIndex + 1)
                /\ \A j \in 1..Len(items) :
                       state'.tasks[st.taskIndex + 1 + j] =
                           [title |-> items[j].title,
                            description |-> items[j].description,
                            assignedAgent |-> items[j].assignedAgent,
                            status |-> "pending", result |-> Null]
      ]_vars

\* One task remained, the re-planning call returned seven and all seven are
\* in the plan, more than the remainder plus 5.
C33_Witness ==
    /\ steps = <<>>
    /\ state.currentTaskIndex = 1
    /\ Len(state.tasks) = 1 + MaxReply
    /\ \A j \in 2..Len(state.tasks) : state.tasks[j].status = "pending"

\* C34: a transition that is not a start or a restart keeps the log's
\* entries as they are, in their order, and at most appends entries at the end.
C34_LogAppendOnly ==
    [][StartsMission
         \/ /\ Len(state'.logs) >= Len(state.logs)
            /\ SubSeq(state'.logs, 1, Len(state.logs)) = state.logs]_vars

\* A mission whose log has grown over several steps: the planning entries
\* and the first task's.
C34_Witness ==
    /\ state.status = "working"
    /\ Len(state.logs) >= 4
    /\ state.logs[1] = "plan"
    /\ state.logs[4] = "action"

\* C35: the mission was restarted while a task's call (or its re-planning
\* call) was awaited, so the state has no plan yet; when that call returns,
\* the new mission's task list, index and token usage are what they were.
C35_LateCommitKeepsNewMission ==
    [][(/\ steps # <<>>
        /\ steps[1].kind \in {"task", "replan"}
        /\ state.tasks = <<>>
        /\ steps' # steps)
       => /\ state'.tasks = state.tasks
          /\ state'.currentTaskIndex = state.currentTaskIndex
          /\ state'.tokenUsage = state.tokenUsage]_vars

\* C36: while the mission runs or is paused, the tasks before the current
\* one are completed and the tasks after it are pending, so that only the
\* current task can be in progress.
C36_TasksOrderedAroundIndex ==
    state.status \in {"planning", "working", "cooldown", "paused", "auto-paused"} =>
        \A i \in 1..Len(state.tasks) :
            /\ i < state.currentTaskIndex + 1 => state.tasks[i].status = "completed"
            /\ i > state.currentTaskIndex + 1 => state.tasks[i].status = "pending"

\* The info entries of a log.  The planning commit writes one (the planning
\* prompt, line 202) before its "Plan created" entry, so a mission whose log
\* has none has not planned.
InfoEntries(s) == Cardinality({k \in 1..Len(s.logs) : s.logs[k] = "info"})

\* C37: the status is working, and a step goes on to the final synthesis,
\* only in a mission whose planning call has succeeded, of which the
\* planning prompt in the log is the trace; a pause, the end of an auto-pause
\* or the end of a cooldown before that leads back to planning.
C37_WorkingOnlyAfterPlanning ==
    [][/\ state'.status = "working" => InfoEntries(state') > 0
       /\ (Fire /\ steps' # steps /\ steps'[Len(steps')].kind = "synth")
              => InfoEntries(state) > 0
      ]_vars

\* The task steps started in this mission: one "Starting Task" entry each
TaskStarts == Cardinality({k \in 1..Len(state.logs) : state.logs[k] = "action"})

\* C38: left to itself with a budget its calls cannot exhaust, the mission
\* reaches completed, with every task of the list completed and as many
\* task steps started as the list has tasks.
C38_TerminatesEachTaskOnce ==
    (config.maxTokens = 100000) ~>
        (/\ state.status = "completed"
         /\ \A i \in 1..Len(state.tasks) : state.tasks[i].status = "completed"
         /\ TaskStarts = Len(state.tasks))

\* C39: processNextStep called in a status other than planning and working
\* changes nothing and issues no call; called in planning or working with a
\* first check that denies, it sets status cooldown and nextAllowedQueryTime,
\* leaves every other field as it is and issues no call.
C39_DeniedStepFrame ==
    LET r == processNextStep(state, config, Now) IN
    /\ state.status \notin Running => r.state = state /\ r.step = <<>>
    /\ state.status \in Running /\ ~Permits =>
          /\ r.step = <<>>
          /\ r.state.status = "cooldown"
          /\ \A f \in DOMAIN state \ {"status", "nextAllowedQueryTime"} :
                 r.state[f] = state[f]

\* A step of a planned mission was denied: cooldown with time to wait, the
\* plan untouched and no call awaited.
C39_Witness ==
    /\ state.status = "cooldown"
    /\ state.nextAllowedQueryTime > Now
    /\ steps = <<>>
    /\ Len(state.tasks) = 2
    /\ \A i \in 1..2 : state.tasks[i].status = "pending"
    /\ state.currentTaskIndex = 0
    /\ state.tokenUsage = 850
    /\ Len(state.logs) = 3

\* C40: Pause sets auto-paused and nextAllowedQueryTime = now +
\* autoResumeMinutes minutes when autoResumeMinutes > 0, paused otherwise;
\* Stop Timer sets paused; Resume sets working when there are tasks and
\* planning when there are none; the three leave tasks, currentTaskIndex,
\* tokenUsage and logs as they are.
C40_PauseResumeFrame ==
    [][/\ HandlePause =>
            IF config.autoResumeMinutes > 0
            THEN /\ state'.status = "auto-paused"
                 /\ state'.nextAllowedQueryTime = Now + config.autoResumeMinutes * 60000
            ELSE state'.status = "paused"
       /\ HandleStopTimer => state'.status = "paused"
       /\ HandleResume =>
            state'.status = IF Len(state.tasks) > 0 THEN "working" ELSE "planning"
       /\ (HandlePause \/ HandleStopTimer \/ HandleResume) =>
            /\ state'.tasks = state.tasks
            /\ state'.currentTaskIndex = state.currentTaskIndex
            /\ state'.tokenUsage = state.tokenUsage
            /\ state'.logs = state.logs
      ]_vars

\* The planning call failed, the mission was paused by the catch block and
\* Resume has put it back in planning, its log kept.
C40_Witness ==
    /\ state.status = "planning"
    /\ state.tasks = <<>>
    /\ steps = <<>>
    /\ Len(state.logs) = 2
    /\ state.logs[2] = "error"
    /\ pacing = PacingDelayMs

====
